---- MODULE Spec2Model ----
(***************************************************************************)
(* Tic-tac-toe with move history (src/src/App.jsx).                        *)
(*                                                                         *)
(* The Game component owns two pieces of state, `history` (an array of     *)
(* board arrays) and `currentMove` (an index into it).  The Board          *)
(* component's handleClick turns a click on a square into a call of        *)
(* handlePlay, the move list turns a click on an entry into jumpTo.        *)
(* calculateWinner is a pure function of one board array.                  *)
(*                                                                         *)
(* A JavaScript array is modelled as a function from its own keys to       *)
(* values: the indices 0..length-1 and, when code assigns to a key that is *)
(* not an array index (such as -1), that extra property.  `history` is a   *)
(* TLA+ sequence, so history[k] of the source is history[k + 1] here.      *)
(***************************************************************************)
EXTENDS Integers, Sequences, FiniteSets, TLC

VARIABLES history, currentMove, last, evalIn, evalOut

vars == <<history, currentMove, last, evalIn, evalOut>>

\* Bounds of the exploration: the longest history a played click may
\* produce, and the highest square on which a click is played (a click that
\* handleClick ignores is explored on every square).  A game is won after
\* five moves at the earliest, that is in a history of length 6, so MaxLen
\* leaves room for a further board after a win.
MaxLen == 7
MaxCell == 5
MaxLenRaw == 4

\* null of the source; reading a missing key (undefined) is falsy as well
\* and is read as Null by Get.
Null == "null"

Cells == 0 .. 8

\* Indices handleClick is never given by the rendered board (lines 50-62)
\* but that a direct caller could pass.
BadCells == {-1, 9}

Truthy(v) == v # Null

\* squares[i] : a missing key reads as undefined
Get(squares, i) == IF i \in DOMAIN squares THEN squares[i] ELSE Null

\* squares.slice() : copies the array elements, not the other properties
slice(squares) == [k \in {j \in DOMAIN squares : j >= 0} |-> squares[k]]

\* a forgotten assignment: the copy is passed on as it is
Put_forgotten(squares, i, v) == squares

\* squares[i] = v on a copy
Put(squares, i, v) ==
  [k \in (DOMAIN squares) \cup {i} |-> IF k = i THEN v ELSE squares[k]]

\* Array(9).fill(null)
EmptySquares == [k \in Cells |-> Null]

lines == << <<0, 1, 2>>, <<3, 4, 5>>, <<6, 7, 8>>, <<0, 3, 6>>,
            <<1, 4, 7>>, <<2, 5, 8>>, <<0, 4, 8>>, <<2, 4, 6>> >>

\* the loop with the comparison against squares[c] left out
RECURSIVE winnerFrom_twoCells(_, _)
winnerFrom_twoCells(squares, i) ==
  IF i > Len(lines) THEN Null
  ELSE LET a == lines[i][1]
           b == lines[i][2]
       IN IF /\ Truthy(Get(squares, a))
             /\ Get(squares, a) = Get(squares, b)
          THEN Get(squares, a)
          ELSE winnerFrom_twoCells(squares, i + 1)

\* the for loop of calculateWinner, from line i (1-based) on
RECURSIVE winnerFrom(_, _)
winnerFrom(squares, i) ==
  IF i > Len(lines) THEN Null
  ELSE LET a == lines[i][1]
           b == lines[i][2]
           c == lines[i][3]
       IN IF /\ Truthy(Get(squares, a))
             /\ Get(squares, a) = Get(squares, b)
             /\ Get(squares, a) = Get(squares, c)
          THEN Get(squares, a)
          ELSE winnerFrom(squares, i + 1)

calculateWinner(squares) == winnerFrom(squares, 1)

\* the parity test inverted
xIsNext_odd == currentMove % 2 = 1

xIsNext == currentMove % 2 = 0

currentSquares == history[currentMove + 1]

\* a move list with one entry too many
moves_onePastEnd == 0 .. Len(history)

\* the entries of the rendered move list
moves == 0 .. (Len(history) - 1)

\* What the last handler call did: which handler ran, the argument it was
\* given, how it ended, and the number of boards handlePlay dropped from the
\* end of history.
Done(op, arg, outcome, cut) ==
  [op |-> op, arg |-> arg, outcome |-> outcome, cut |-> cut]

\* the new board is appended to the whole history
handlePlay_noTruncate(nextSquares) ==
  LET nextHistory == Append(history, nextSquares)
  IN /\ history' = nextHistory
     /\ currentMove' = Len(nextHistory) - 1

handlePlay(nextSquares) ==
  LET nextHistory == Append(SubSeq(history, 1, currentMove + 1), nextSquares)
  IN /\ history' = nextHistory
     /\ currentMove' = Len(nextHistory) - 1

\* the test for a finished game left out
handleClick_noWinnerTest(i) ==
  IF Truthy(Get(currentSquares, i))
  THEN /\ UNCHANGED <<history, currentMove>>
       /\ last' = Done("click", i, "ignored", 0)
  ELSE /\ handlePlay(Put(slice(currentSquares), i,
                         IF xIsNext THEN "X" ELSE "O"))
       /\ last' = Done("click", i, "played",
                       Len(history) - (currentMove + 1))

\* the test for a filled square left out
handleClick_noFilledTest(i) ==
  IF Truthy(calculateWinner(currentSquares))
  THEN /\ UNCHANGED <<history, currentMove>>
       /\ last' = Done("click", i, "ignored", 0)
  ELSE /\ handlePlay(Put(slice(currentSquares), i,
                         IF xIsNext THEN "X" ELSE "O"))
       /\ last' = Done("click", i, "played",
                       Len(history) - (currentMove + 1))

handleClick(i) ==
  IF Truthy(calculateWinner(currentSquares)) \/ Truthy(Get(currentSquares, i))
  THEN /\ UNCHANGED <<history, currentMove>>
       /\ last' = Done("click", i, "ignored", 0)
  ELSE /\ handlePlay(Put(slice(currentSquares), i,
                         IF xIsNext THEN "X" ELSE "O"))
       /\ last' = Done("click", i, "played",
                       Len(history) - (currentMove + 1))

\* the history is reset along with the position
jumpTo_resets(nextMove) ==
  /\ currentMove' = nextMove
  /\ history' = SubSeq(history, 1, nextMove + 1)
  /\ last' = Done("jump", nextMove, "jumped", 0)

jumpTo(nextMove) ==
  /\ currentMove' = nextMove
  /\ UNCHANGED history
  /\ last' = Done("jump", nextMove, "jumped", 0)

\* The state after the first render of Game (lines 70-71).
Init ==
  /\ history = <<EmptySquares>>
  /\ currentMove = 0
  /\ last = Done("init", 0, "none", 0)
  /\ evalIn = EmptySquares
  /\ evalOut = "pending"

\* a click on one of the nine rendered squares
ClickSquare ==
  /\ \E i \in Cells : handleClick(i)
  /\ last'.outcome = "played" => (last'.arg <= MaxCell /\ Len(history') <= MaxLen)
  /\ UNCHANGED <<evalIn, evalOut>>

\* a click on one of the rendered move-list buttons
ClickMove ==
  /\ \E move \in moves : jumpTo(move)
  /\ UNCHANGED <<evalIn, evalOut>>

Next == ClickSquare \/ ClickMove

Spec == Init /\ [][Next]_vars

\* ---- handleClick called with any index, in range or not ----

ClickAnyIndex ==
  /\ \E i \in Cells \cup BadCells : handleClick(i)
  /\ last'.outcome = "played" => Len(history') <= MaxLenRaw
  /\ UNCHANGED <<evalIn, evalOut>>

NextRaw == ClickAnyIndex \/ ClickMove

SpecRaw == Init /\ [][NextRaw]_vars

\* ---- calculateWinner applied to an arbitrary board ----

Boards == [Cells -> {Null, "X", "O"}]

InitEval ==
  /\ history = <<EmptySquares>>
  /\ currentMove = 0
  /\ last = Done("init", 0, "none", 0)
  /\ evalIn \in Boards
  /\ evalOut = "pending"

Evaluate ==
  /\ evalOut' = calculateWinner(evalIn)
  /\ UNCHANGED <<history, currentMove, last, evalIn>>

NextEval == Evaluate

SpecEval == InitEval /\ [][NextEval]_vars

\* ---- jumpTo called with any target, in the move list or not ----

\* Targets jumpTo is never given by the rendered move list (line 97) but
\* that a direct caller could pass.
BadMoves == {-1, Len(history)}

\* Board renders only while history[currentMove] is a board: when it is
\* undefined, calculateWinner(squares) at line 37 throws during the render
\* and no square or move-list button is left to click.
Rendered == currentMove \in 0 .. (Len(history) - 1)

ClickRendered == Rendered /\ ClickAnyIndex

JumpAnyTarget ==
  /\ Rendered
  /\ \E t \in moves \cup BadMoves : jumpTo(t)
  /\ UNCHANGED <<evalIn, evalOut>>

NextRawJump == ClickRendered \/ JumpAnyTarget

SpecRawJump == Init /\ [][NextRawJump]_vars

\* ---- whole games: the first moves follow one line of play ----

\* Bound of the exploration of whole games: the number of moves at the end
\* of a nine-move game that are played on any square.  The moves before
\* them are played on the squares of Opening, in its order (a click that
\* handleClick ignores is explored on every square at every position).
FreeMoves == 5

Opening == <<1, 4, 2, 5>>

OpeningLen == IF 9 - FreeMoves > 0 THEN 9 - FreeMoves ELSE 0

ClickInGame ==
  /\ \E i \in Cells : handleClick(i)
  /\ (last'.outcome = "played" /\ currentMove < OpeningLen)
       => last'.arg = Opening[currentMove + 1]
  /\ UNCHANGED <<evalIn, evalOut>>

NextGame == ClickInGame \/ ClickMove

SpecGame == Init /\ [][NextGame]_vars

\* the status line Board renders (lines 37-43)
winner == calculateWinner(currentSquares)

status ==
  IF Truthy(winner)
  THEN "Winner: " \o winner
  ELSE "Next player: " \o (IF xIsNext THEN "X" ELSE "O")

\* ---- handlePlay taken one state write at a time ----

\* the position is written first
setHistory_positionFirst(nextSquares) ==
  LET nextHistory == Append(SubSeq(history, 1, currentMove + 1), nextSquares)
  IN /\ currentMove' = Len(nextHistory) - 1
     /\ UNCHANGED history

\* lines 81-82: setHistory(nextHistory); currentMove is not written yet
setHistory(nextSquares) ==
  LET nextHistory == Append(SubSeq(history, 1, currentMove + 1), nextSquares)
  IN /\ history' = nextHistory
     /\ UNCHANGED currentMove

\* line 83: setCurrentMove(nextHistory.length - 1), where nextHistory is what
\* line 82 wrote
setCurrentMove ==
  /\ currentMove' = Len(history) - 1
  /\ UNCHANGED history

\* handleClick up to the first write of handlePlay
handleClickFirstWrite(i) ==
  IF Truthy(calculateWinner(currentSquares)) \/ Truthy(Get(currentSquares, i))
  THEN /\ UNCHANGED <<history, currentMove>>
       /\ last' = Done("click", i, "ignored", 0)
  ELSE /\ setHistory(Put(slice(currentSquares), i,
                         IF xIsNext THEN "X" ELSE "O"))
       /\ last' = Done("click", i, "writing",
                       Len(history) - (currentMove + 1))

\* handlePlay is between its two writes
Writing == last.outcome = "writing"

ClickFirstWrite ==
  /\ ~Writing
  /\ \E i \in Cells : handleClickFirstWrite(i)
  /\ last'.outcome = "writing" =>
       (last'.arg <= MaxCell /\ Len(history') <= MaxLen)
  /\ UNCHANGED <<evalIn, evalOut>>

ClickSecondWrite ==
  /\ Writing
  /\ setCurrentMove
  /\ last' = [last EXCEPT !.outcome = "played"]
  /\ UNCHANGED <<evalIn, evalOut>>

JumpBetweenClicks == ~Writing /\ ClickMove

NextTwoStep == ClickFirstWrite \/ ClickSecondWrite \/ JumpBetweenClicks

SpecTwoStep == Init /\ [][NextTwoStep]_vars

\* ---- Properties ----

\* history[k] of the source
H(k) == history[k + 1]

Winner(squares) == calculateWinner(squares)

\* the cells in which two boards differ
Diff(s, t) == {c \in Cells : Get(s, c) # Get(t, c)}

Changed == history' # history \/ currentMove' # currentMove

\* C1 (win freezes play): from a state whose current board has a winner, a
\* click on any of the nine squares leaves history and currentMove unchanged.
C1_WinFreezesPlay ==
  [][~Changed \/ ~(last'.op = "click" /\ Truthy(Winner(currentSquares)))]_vars

C1_Witness ==
  /\ Truthy(Winner(currentSquares))
  /\ last.op = "click"
  /\ last.outcome = "ignored"

\* C2 (occupied-cell rejection): a click on a square of the current board
\* that is already filled changes neither history nor currentMove and ends as
\* an ignored click, never as an error.
C2_OccupiedCellRejected ==
  [][(last'.op = "click" /\ Truthy(Get(currentSquares, last'.arg)))
       => (~Changed /\ last'.outcome = "ignored")]_vars

C2_Witness ==
  /\ last.op = "click"
  /\ last.outcome = "ignored"
  /\ Truthy(Get(currentSquares, last.arg))
  /\ ~Truthy(Winner(currentSquares))

\* C3 (no overwrite): for all indices i < j of history and every cell c, a
\* cell that holds X or O in history[i] holds the same symbol in history[j].
C3_NoOverwrite ==
  \A i \in 0 .. Len(history) - 1 : \A j \in 0 .. Len(history) - 1 :
    i < j => \A c \in Cells :
      Truthy(Get(H(i), c)) => Get(H(j), c) = Get(H(i), c)

C3_Witness ==
  /\ last.outcome = "played"
  /\ last.cut > 0
  /\ Len(history) >= 4

\* the symbol added at index k of history, for every k >= 1
C4_AddedSymbols ==
  \A k \in 1 .. Len(history) - 1 :
    /\ Diff(H(k - 1), H(k)) # {}
    /\ \A c \in Diff(H(k - 1), H(k)) :
         Get(H(k), c) = IF k % 2 = 1 THEN "X" ELSE "O"

\* the symbol a played click writes, by the position it is made at
C4_PlayedStep ==
  (last'.outcome = "played" /\ Changed) =>
    LET new == history'[currentMove' + 1]
    IN /\ Diff(currentSquares, new) # {}
       /\ \A c \in Diff(currentSquares, new) :
            Get(new, c) = IF currentMove % 2 = 0 THEN "X" ELSE "O"

\* C4 (turn alternation): a played click made at position p writes X when p
\* is even and O when p is odd, and in every history the symbol added at
\* index k >= 1 is X for odd k and O for even k, also after a jump followed
\* by a branching move.
C4_TurnAlternation == [] C4_AddedSymbols /\ [][C4_PlayedStep]_vars

C4_Witness ==
  /\ last.outcome = "played"
  /\ last.cut > 0
  /\ currentMove >= 2
  /\ currentMove % 2 = 0

\* C5 (history truncation on branch): a played click made at position p, also
\* when p is not the last index, gives a history of length p + 2 whose entries
\* 0..p are the old entries 0..p, whose entry p + 1 is the one new board, and
\* sets currentMove to p + 1.
C5_TruncationOnBranch ==
  [][(last'.outcome = "played" /\ Changed) =>
       LET p == currentMove
       IN /\ Len(history') = p + 2
          /\ SubSeq(history', 1, p + 1) = SubSeq(history, 1, p + 1)
          /\ Cardinality(Diff(history[p + 1], history'[p + 2])) = 1
          /\ currentMove' = p + 1
          /\ last'.cut = Len(history) - (p + 1)]_vars

C5_Witness ==
  /\ last.outcome = "played"
  /\ last.cut = 2
  /\ Len(history) = 3
  /\ currentMove = 2

\* C6 (jump is non-destructive): a jump to an entry t of the move list sets
\* currentMove to t and leaves the length of history and every board in it
\* unchanged.
C6_JumpNonDestructive ==
  [][(last'.op = "jump" /\ (Changed \/ last' # last)) =>
       /\ last'.arg \in 0 .. Len(history) - 1
       /\ currentMove' = last'.arg
       /\ history' = history]_vars

C6_Witness ==
  /\ last.op = "jump"
  /\ currentMove = last.arg
  /\ currentMove < Len(history) - 1
  /\ Len(history) >= 3

\* line n of the board b has three equal cells that are not null
Complete(b, n) ==
  /\ \A k \in 1 .. 3 : b[lines[n][k]] \in {"X", "O"}
  /\ Cardinality({b[lines[n][k]] : k \in 1 .. 3}) = 1

\* the order of the triples as the claim lists it
ListedOrder ==
  lines = << <<0, 1, 2>>, <<3, 4, 5>>, <<6, 7, 8>>, <<0, 3, 6>>,
             <<1, 4, 7>>, <<2, 5, 8>>, <<0, 4, 8>>, <<2, 4, 6>> >>

\* C7 (win evaluation): for every board of nine cells over null, X and O,
\* calculateWinner returns the value of the first cell of the first line, in
\* the listed order, whose three cells are equal and not null, and returns
\* null exactly when no line has three equal cells that are not null.
C7_WinEvaluation ==
  evalOut # "pending" =>
    LET M == {n \in 1 .. 8 : Complete(evalIn, n)}
    IN /\ ListedOrder
       /\ (evalOut = Null) <=> (M = {})
       /\ M # {} =>
            LET first == CHOOSE n \in M : \A m \in M : n <= m
            IN evalOut = evalIn[lines[first][1]]

C7_Witness ==
  /\ evalOut = "O"
  /\ Complete(evalIn, 2)
  /\ Complete(evalIn, 3)
  /\ evalIn[6] = "X"

\* C8 (position validity): after any sequence of clicks on squares 0..8 and
\* on the entries of the move list, history is not empty, history[0] is the
\* all-null board, every board has exactly the nine cells 0..8, and
\* 0 <= currentMove < length of history.
C8_PositionValid ==
  /\ Len(history) >= 1
  /\ H(0) = EmptySquares
  /\ \A k \in 0 .. Len(history) - 1 : DOMAIN H(k) = Cells
  /\ currentMove \in 0 .. Len(history) - 1

C8_Witness ==
  /\ last.op = "jump"
  /\ Len(history) >= 3
  /\ currentMove = Len(history) - 1

\* C9 (single-cell steps): for every k >= 1, history[k] differs from
\* history[k-1] in exactly one cell, which is null in history[k-1] and X or O
\* in history[k]; no two consecutive boards are identical.
C9_SingleCellSteps ==
  \A k \in 1 .. Len(history) - 1 :
    /\ Cardinality(Diff(H(k - 1), H(k))) = 1
    /\ \A c \in Diff(H(k - 1), H(k)) :
         /\ Get(H(k - 1), c) = Null
         /\ Get(H(k), c) \in {"X", "O"}

C9_Witness ==
  /\ Len(history) >= 4
  /\ last.outcome = "played"
  /\ last.cut = 1

\* C10 (out-of-range move is an error): handleClick with an index outside
\* 0..8 ends in an error outcome, appends nothing to history and leaves
\* currentMove unchanged.
C10_OutOfRangeIsError ==
  [][(last'.op = "click" /\ last'.arg \in BadCells)
       => (last'.outcome = "error" /\ ~Changed)]_vars

\* C11 (out-of-range jump is an error): jumpTo with a target below 0 or at
\* or beyond the length of history ends in an error outcome and leaves
\* currentMove unchanged, so currentMove never leaves 0..length-1.
C11_OutOfRangeJumpIsError ==
  [][(last'.op = "jump" /\ last'.arg \notin 0 .. (Len(history) - 1))
       => (last'.outcome = "error" /\ currentMove' = currentMove)]_vars

\* the last board of history
Tip == history[Len(history)]

\* a jump from a won position to an earlier one gives a position without a
\* winner
C12_JumpBackStep ==
  (last'.op = "jump" /\ last'.arg < currentMove
     /\ Truthy(Winner(currentSquares)))
    => ~Truthy(Winner(history'[currentMove' + 1]))

\* a click never leaves a won position (a click that changes neither
\* history nor currentMove leaves the current board as it is)
C12_ClickStep ==
  (last'.op = "click" /\ Changed /\ Truthy(Winner(currentSquares)))
    => Truthy(Winner(history'[currentMove' + 1]))

\* after a jump back from a won tip, a click on any empty square is played
C12_PlayableAfterJump ==
  (last.op = "jump" /\ currentMove < Len(history) - 1 /\ Truthy(Winner(Tip)))
    => \A c \in Cells :
         ~Truthy(Get(currentSquares, c)) =>
           ENABLED (/\ handleClick(c)
                    /\ last'.outcome = "played"
                    /\ currentMove' = currentMove + 1
                    /\ Get(history'[currentMove' + 1], c) \in {"X", "O"})

\* C12 (won is not absorbing under jumps): from a state whose current board
\* has a winner, a jump to any earlier position gives a state without a
\* winner in which a click on any empty square is played; a click alone never
\* leaves the won state.
C12_WonNotAbsorbing ==
  /\ [][C12_JumpBackStep /\ C12_ClickStep]_vars
  /\ [] C12_PlayableAfterJump

C12_Witness ==
  /\ last.op = "jump"
  /\ currentMove < Len(history) - 1
  /\ Truthy(Winner(Tip))
  /\ ~Truthy(Winner(currentSquares))
  /\ \E c \in Cells : ~Truthy(Get(currentSquares, c))

Full(squares) == \A c \in Cells : Truthy(Get(squares, c))

\* the current board is full and has no winner
Draw == Full(currentSquares) /\ ~Truthy(Winner(currentSquares))

\* C13 (draw is reachable and unflagged): in a state whose current board has
\* all nine cells filled and no winner, the status line still names a next
\* player and a click on any of the nine squares changes nothing.
C13_DrawUnflagged ==
  /\ [] (Draw => status \in {"Next player: X", "Next player: O"})
  /\ [][(Draw /\ last'.op = "click") => (~Changed /\ last'.outcome = "ignored")]_vars

C13_Witness ==
  /\ Draw
  /\ winner = Null
  /\ status = "Next player: O"
  /\ last.op = "click"
  /\ last.outcome = "ignored"

\* the lines of a board that are complete
CompleteLines(b) == {n \in 1 .. Len(lines) : Complete(b, n)}

LineCells(n) == {lines[n][k] : k \in 1 .. 3}

\* C14 (no double lines), as stated: no board of a reachable history has two
\* distinct lines complete at the same time.
C14_NoDoubleLines ==
  \A k \in 0 .. Len(history) - 1 : Cardinality(CompleteLines(H(k))) <= 1

\* C14, amended: two distinct lines are complete at the same time only in
\* the board at index 9, and then both hold X and both contain the cell
\* added at index 9; no board at an index below 9 has two complete lines.
C14_DoubleLinesOnlyAtNine ==
  \A k \in 0 .. Len(history) - 1 :
    Cardinality(CompleteLines(H(k))) >= 2 =>
      /\ k = 9
      /\ \A n \in CompleteLines(H(k)) :
           /\ H(k)[lines[n][1]] = "X"
           /\ Diff(H(k - 1), H(k)) \subseteq LineCells(n)

C14_Witness ==
  /\ currentMove = 9
  /\ Cardinality(CompleteLines(currentSquares)) = 2
  /\ winner = "X"
  /\ last.outcome = "played"

\* the number of cells of a board that hold the value v
Count(squares, v) == Cardinality({c \in Cells : Get(squares, c) = v})

C15_Counts ==
  /\ \A k \in 0 .. Len(history) - 1 :
       /\ Cardinality({c \in Cells : Truthy(Get(H(k), c))}) = k
       /\ Count(H(k), "X") = (k + 1) \div 2
       /\ Count(H(k), "O") = k \div 2
  /\ Len(history) <= 10
  /\ currentMove <= 9

\* a played click moves currentMove up by exactly one, so that a run of
\* played clicks without a jump is as long as the rise of currentMove
C15_PlayedStep ==
  (last'.outcome = "played" /\ Changed) => currentMove' = currentMove + 1

\* C15 (bounded game): history[k] has exactly k filled cells, ceil(k/2) of
\* them X and floor(k/2) of them O; hence history has at most 10 boards,
\* currentMove is at most 9, and no more than 9 clicks in a row are played
\* without a jump between them.
C15_BoundedGame == [] C15_Counts /\ [][C15_PlayedStep]_vars

C15_Witness ==
  /\ Len(history) = 10
  /\ currentMove = 9
  /\ last.outcome = "played"
  /\ last.cut = 0

\* C16 (a winning board is only ever the tip): for every index k below the
\* last index of history, calculateWinner(history[k]) is null; a board with a
\* winner appears only at the last index.
C16_WinnerOnlyAtTip ==
  \A k \in 0 .. Len(history) - 2 : ~Truthy(Winner(H(k)))

C16_Witness ==
  /\ Truthy(Winner(Tip))
  /\ Len(history) >= 6
  /\ last.op = "jump"
  /\ currentMove < Len(history) - 1

\* C17 (the winner is the last mover): if calculateWinner(history[k]) is not
\* null it is X when k is odd and O when k is even, and no board of history
\* has a complete line of X together with a complete line of O, so the first
\* cell of every complete line holds the reported winner.
C17_WinnerIsLastMover ==
  \A k \in 0 .. Len(history) - 1 :
    /\ Truthy(Winner(H(k))) =>
         Winner(H(k)) = IF k % 2 = 1 THEN "X" ELSE "O"
    /\ \A n \in CompleteLines(H(k)) : \A m \in CompleteLines(H(k)) :
         H(k)[lines[n][1]] = H(k)[lines[m][1]]
    /\ \A n \in CompleteLines(H(k)) : H(k)[lines[n][1]] = Winner(H(k))

C17_Witness ==
  /\ winner = "O"
  /\ currentMove % 2 = 0
  /\ currentMove = Len(history) - 1
  /\ last.outcome = "played"

\* the turn that currentMove gives is the turn the current board gives
TurnParity ==
  xIsNext <=> (Count(currentSquares, "X") = Count(currentSquares, "O"))

\* the first write leaves currentMove and the board at currentMove as they
\* were
C18_FirstWriteStep ==
  (~Writing /\ last'.outcome = "writing") =>
    /\ currentMove' = currentMove
    /\ history'[currentMove' + 1] = history[currentMove + 1]
    /\ Len(history') = currentMove + 2

\* C18 (two-step update is safe): handlePlay writes history first and
\* currentMove second; in the state between the two writes currentMove
\* indexes a board of history, that board is the one before the move, and
\* position validity and turn parity hold.
C18_TwoStepSafe ==
  /\ [] (Writing => (C8_PositionValid /\ C4_AddedSymbols /\ TurnParity))
  /\ [][C18_FirstWriteStep]_vars

C18_Witness ==
  /\ Writing
  /\ last.cut > 0
  /\ currentMove = Len(history) - 2
  /\ currentMove >= 1

====
